---- MODULE Spec2Model ----
(***************************************************************************)
(* tools/wrappers.py: wrap_with_calls and the wrapper it builds.           *)
(*                                                                         *)
(* A configuration (the keyword arguments of wrap_with_calls) is fixed by  *)
(* Init; every thread of `threads` calls the resulting wrapper again and   *)
(* again.  One action is one step of decorated_func_wrapper: the loop      *)
(* bookkeeping up to and including one external call, the filter applied   *)
(* to its result and the append / return that follows.                     *)
(*                                                                         *)
(* The wrapper never inspects the values its callables return: it hands    *)
(* them to return_filter_func and reduce_result_func only.  A returned     *)
(* value is therefore modelled by where it comes from (invocation, slot,   *)
(* position) and by `hit`, whether return_filter_func is true of it.       *)
(* A reducer application is kept as a term in postfix form.                *)
(***************************************************************************)
EXTENDS Integers, Sequences, FiniteSets, TLC

\* Longest iterable given as first_call / after_call.
MaxHooks == 2
\* Number of threads that may call one wrapper concurrently.
NumThreads == 2

Threads == 1..NumThreads

SeqsUpTo(S, n) == UNION {[1..m -> S] : m \in 0..n}

(***************************************************************************)
(* Python objects, as far as the wrapper tells them apart.  `name` tells   *)
(* the members of one iterable apart: it is the member's place in it.      *)
(***************************************************************************)
Obj(kind, name) == [kind |-> kind, name |-> name, items |-> <<>>]
PyNone == Obj("None", 0)
PyCallable == Obj("callable", 1)
\* neither callable nor iterable, e.g. 42
PyOther == Obj("other", 1)
\* a list or tuple whose members have the kinds given
PyIterable(kinds) ==
    [kind |-> "iterable", name |-> 1,
     items |-> [i \in 1..Len(kinds) |-> Obj(kinds[i], i)]]

PyScalars == {PyNone, PyCallable, PyOther}

\* the builtin callable()
callablePermissive(o) == o.kind # "None"
callable(o) == o.kind = "callable"

\* an optional tuple / dict argument: None, or a value
NoArg == [none |-> TRUE, items |-> <<>>]
Tuple(s) == [none |-> FALSE, items |-> s]
NoKwds == [none |-> TRUE, items |-> {}]
Dict(s) == [none |-> FALSE, items |-> s]

(***************************************************************************)
(* State: the arguments of wrap_with_calls, the threads calling the        *)
(* wrapper, and each thread's frame of decorated_func_wrapper.             *)
(*   entry             the entry point the wrapper was built through, with *)
(*                     the arguments it was given                          *)
(*   frame[t].pc       where the frame stands                              *)
(*   frame[t].item     index of the for loop                               *)
(*   frame[t].ret      the value returned (<<>>: none), a postfix term     *)
(*   frame[t].exc      who raised ("" : nobody)                            *)
(*   frame[t].calls    the calls made so far, with what they returned      *)
(*   frame[t].filtered the values handed to return_filter_func             *)
(*   frame[t].reduced  number of applications of reduce_result_func        *)
(***************************************************************************)
VARIABLES
    first_call, after_call, func, func_args, args, kwds,
    return_filter_func, reduce_result_func,
    entry,
    threads,
    frame

cfgvars == <<first_call, after_call, func, func_args, args, kwds,
             return_filter_func, reduce_result_func, entry, threads>>
vars == <<first_call, after_call, func, func_args, args, kwds,
          return_filter_func, reduce_result_func, entry, threads, frame>>

\* def list_of_callables(callables)
list_of_callablesReversed(callables) ==
    IF callables.kind = "None" THEN <<>>
    ELSE IF callable(callables) THEN <<callables>>
    ELSE IF callables.kind = "iterable"
    THEN [i \in 1..Len(callables.items) |->
            callables.items[Len(callables.items) + 1 - i]]
    ELSE <<>>
list_of_callables(callables) ==
    IF callables.kind = "None" THEN <<>>
    ELSE IF callable(callables) THEN <<callables>>
    ELSE IF callables.kind = "iterable" THEN callables.items
    ELSE <<>>

\* _args = args or tuple()
_args == IF args.none \/ args.items = <<>> THEN <<>> ELSE args.items
\* _kwds = kwds or dict()
_kwdsDropped == {}
_kwds == IF kwds.none \/ kwds.items = {} THEN {} ELSE kwds.items

(***************************************************************************)
(* Values and calls.                                                       *)
(***************************************************************************)
\* the value returned by the n-th call of thread t's invocation
Value(t, n, slot, name, hit) ==
    [by |-> t, call |-> n, slot |-> slot, name |-> name, hit |-> hit]

\* the values the next call of frame f may return
Returns(f, t, slot, name) ==
    {Value(t, Len(f.calls) + 1, slot, name, h) :
        h \in IF callable(return_filter_func) THEN BOOLEAN ELSE {FALSE}}

\* one application of reduce_result_func, in postfix form
ReducerApp(t) == Value(t, 0, "reduce_result_func", 0, FALSE)

CallRec(slot, name, a, kw, ret) ==
    [slot |-> slot, name |-> name, args |-> a, kwds |-> kw, ret |-> ret]

LogCall(f, slot, name, a, kw, ret) ==
    [f EXCEPT !.calls = Append(@, CallRec(slot, name, a, kw, ret))]

\* an exception leaves the wrapper: nothing in it catches
RaiseSwallowed(f, who) == [f EXCEPT !.pc = "returned"]
Raise(f, who) == [f EXCEPT !.pc = "raised", !.exc = who]

\* callable(return_filter_func) and return_filter_func(cur_result)
ShortCircuitsNever(r) == FALSE
ShortCircuits(r) == callable(return_filter_func) /\ r.hit

\* results = list()
NewResultsKept(old) == old
NewResults(old) == <<>>

\* the arguments decorated_func is called with
TargetArgsWithFixed(f) == _args \o f.decorated_func_args
TargetArgs(f) == f.decorated_func_args

\* results.append(decorated_func_result)
AppendTargetTwice(res, r) == Append(Append(res, r), r)
AppendTarget(res, r) == Append(res, r)

\* functools.reduce(function, sequence) without initial value
RECURSIVE ReduceRight(_, _)
ReduceRight(t, seq) ==
    IF Len(seq) = 1 THEN <<seq[1]>>
    ELSE <<seq[1]>> \o ReduceRight(t, Tail(seq)) \o <<ReducerApp(t)>>
RECURSIVE Reduce(_, _)
Reduce(t, seq) ==
    IF Len(seq) = 1 THEN <<seq[1]>>
    ELSE Reduce(t, SubSeq(seq, 1, Len(seq) - 1))
            \o <<seq[Len(seq)]>> \o <<ReducerApp(t)>>

\* return decorated_func_result
GeneralResultFirst(f) == <<f.results[1]>>
GeneralResultNone(f) == <<>>
GeneralResult(f) == f.decorated_func_result

IdleFrame ==
    [pc |-> "idle", item |-> 1, results |-> <<>>,
     decorated_func_args |-> <<>>, decorated_func_kwds |-> {},
     decorated_func_result |-> <<>>, ret |-> <<>>, exc |-> "",
     calls |-> <<>>, filtered |-> <<>>, reduced |-> 0]

(***************************************************************************)
(* One hook call (an item of a hook list, or func) with its fixed         *)
(* arguments, the filter applied to its result, and the append: the frames *)
(* one such step of frame f may end in.  Calling an object that is not     *)
(* callable raises TypeError.                                              *)
(***************************************************************************)
HookCallAppendFirst(f, t, slot, obj, a, kw, nextpc, nextitem) ==
    LET called(r) == LogCall(f, slot, obj.name, a, kw, <<r>>)
        seen(r) == [called(r) EXCEPT !.filtered = Append(@, r),
                                     !.results = Append(@, r)]
    IN  IF obj.kind # "callable"
        THEN {Raise(LogCall(f, slot, obj.name, a, kw, <<>>), "TypeError")}
        ELSE
        {Raise(LogCall(f, slot, obj.name, a, kw, <<>>), slot)}
        \cup
        UNION {
           { Raise(seen(r), "return_filter_func"),
             IF ShortCircuits(r)
             THEN [seen(r) EXCEPT !.pc = "returned", !.ret = <<r>>]
             ELSE [seen(r) EXCEPT !.pc = nextpc, !.item = nextitem] } :
                r \in Returns(f, t, slot, obj.name) }
HookCall(f, t, slot, obj, a, kw, nextpc, nextitem) ==
    LET called(r) == LogCall(f, slot, obj.name, a, kw, <<r>>)
        seen(r) == [called(r) EXCEPT !.filtered = Append(@, r)]
        appended(g, r) == [g EXCEPT !.results = Append(@, r),
                                    !.pc = nextpc, !.item = nextitem]
    IN  IF obj.kind # "callable"
        THEN {Raise(LogCall(f, slot, obj.name, a, kw, <<>>), "TypeError")}
        ELSE
        {Raise(LogCall(f, slot, obj.name, a, kw, <<>>), slot)}
        \cup
        IF callable(return_filter_func)
        THEN UNION {
               { Raise(seen(r), "return_filter_func"),
                 IF ShortCircuits(r)
                 THEN [seen(r) EXCEPT !.pc = "returned", !.ret = <<r>>]
                 ELSE appended(seen(r), r) } : r \in Returns(f, t, slot, obj.name) }
        ELSE { appended(called(r), r) : r \in Returns(f, t, slot, obj.name) }

(***************************************************************************)
(* Actions.                                                                *)
(***************************************************************************)
\* what a caller passes: (positional, keyword) arguments
CallerArguments == { <<(<<>>), {}>>, << <<"c1">>, {<<"ck", "cv">>} >> }

\* a caller calls decorated_func_wrapper
Invoke(t) ==
    /\ t \in threads
    /\ frame[t].pc \in {"idle", "returned", "raised"}
    /\ \E c \in CallerArguments :
         frame' = [frame EXCEPT ![t] =
                     [IdleFrame EXCEPT
                        !.pc = "first_calls",
                        !.results = NewResults(frame[t].results),
                        !.decorated_func_args = c[1],
                        !.decorated_func_kwds = c[2]]]
    /\ UNCHANGED cfgvars

\* the first calls loop without its test of callable(item)
FirstCallsUnguarded(t) ==
    /\ t \in threads
    /\ frame[t].pc = "first_calls"
    /\ LET f == frame[t]
           lst == list_of_callables(first_call)
       IN  \E g \in IF f.item > Len(lst)
                    THEN {[f EXCEPT !.pc = "func_before", !.item = 1]}
                    ELSE HookCall(f, t, "first_call", lst[f.item], _args, _kwds,
                                  "first_calls", f.item + 1) :
             frame' = [frame EXCEPT ![t] = g]
    /\ UNCHANGED cfgvars

\* for item in list_of_callables(first_call): ...
FirstCalls(t) ==
    /\ t \in threads
    /\ frame[t].pc = "first_calls"
    /\ LET f == frame[t]
           lst == list_of_callables(first_call)
       IN  \E g \in IF f.item > Len(lst)
                    THEN {[f EXCEPT !.pc = "func_before", !.item = 1]}
                    ELSE IF ~callable(lst[f.item])
                    THEN {[f EXCEPT !.item = @ + 1]}
                    ELSE HookCall(f, t, "first_call", lst[f.item], _args, _kwds,
                                  "first_calls", f.item + 1) :
             frame' = [frame EXCEPT ![t] = g]
    /\ UNCHANGED cfgvars

\* func before decorated_func
FuncBefore(t) ==
    /\ t \in threads
    /\ frame[t].pc = "func_before"
    /\ LET f == frame[t]
       IN  \E g \in IF callable(func)
                    THEN HookCall(f, t, "func", func, func_args \o _args, _kwds,
                                  "decorated_func", 1)
                    ELSE {[f EXCEPT !.pc = "decorated_func"]} :
             frame' = [frame EXCEPT ![t] = g]
    /\ UNCHANGED cfgvars

\* decorated_func call with the commented-out lines 103-105 enabled
DecoratedCallFiltered(t) ==
    /\ t \in threads
    /\ frame[t].pc = "decorated_func"
    /\ LET f == frame[t]
           a == TargetArgs(f)
           kw == f.decorated_func_kwds
           called(r) == [LogCall(f, "decorated_func", 1, a, kw, <<r>>) EXCEPT
                            !.decorated_func_result = <<r>>]
       IN  \E g \in
             {Raise(LogCall(f, "decorated_func", 1, a, kw, <<>>), "decorated_func")}
             \cup
             { IF ShortCircuits(r)
               THEN [called(r) EXCEPT !.filtered = Append(@, r),
                                      !.pc = "returned", !.ret = <<r>>]
               ELSE [called(r) EXCEPT !.results = AppendTarget(@, r),
                                      !.pc = "func_after"] :
                  r \in Returns(f, t, "decorated_func", 1) } :
             frame' = [frame EXCEPT ![t] = g]
    /\ UNCHANGED cfgvars

\* !!! decorated_func call !!! with the caller's arguments
DecoratedCall(t) ==
    /\ t \in threads
    /\ frame[t].pc = "decorated_func"
    /\ LET f == frame[t]
           a == TargetArgs(f)
           kw == f.decorated_func_kwds
       IN  \E g \in
             {Raise(LogCall(f, "decorated_func", 1, a, kw, <<>>), "decorated_func")}
             \cup
             { [LogCall(f, "decorated_func", 1, a, kw, <<r>>) EXCEPT
                   !.decorated_func_result = <<r>>,
                   !.results = AppendTarget(@, r),
                   !.pc = "func_after"] : r \in Returns(f, t, "decorated_func", 1) } :
             frame' = [frame EXCEPT ![t] = g]
    /\ UNCHANGED cfgvars

\* func called before decorated_func only
FuncAfterSkipped(t) ==
    /\ t \in threads
    /\ frame[t].pc = "func_after"
    /\ frame' = [frame EXCEPT ![t] = [@ EXCEPT !.pc = "after_calls", !.item = 1]]
    /\ UNCHANGED cfgvars

\* func after decorated_func
FuncAfter(t) ==
    /\ t \in threads
    /\ frame[t].pc = "func_after"
    /\ LET f == frame[t]
       IN  \E g \in IF callable(func)
                    THEN HookCall(f, t, "func", func, func_args \o _args, _kwds,
                                  "after_calls", 1)
                    ELSE {[f EXCEPT !.pc = "after_calls", !.item = 1]} :
             frame' = [frame EXCEPT ![t] = g]
    /\ UNCHANGED cfgvars

\* for item in list_of_callables(after_call): ...
AfterCalls(t) ==
    /\ t \in threads
    /\ frame[t].pc = "after_calls"
    /\ LET f == frame[t]
           lst == list_of_callables(after_call)
       IN  \E g \in IF f.item > Len(lst)
                    THEN {[f EXCEPT !.pc = "result", !.item = 1]}
                    ELSE IF ~callable(lst[f.item])
                    THEN {[f EXCEPT !.item = @ + 1]}
                    ELSE HookCall(f, t, "after_call", lst[f.item], _args, _kwds,
                                  "after_calls", f.item + 1) :
             frame' = [frame EXCEPT ![t] = g]
    /\ UNCHANGED cfgvars

\* reduce results if specified, else the general result
Result(t) ==
    /\ t \in threads
    /\ frame[t].pc = "result"
    /\ LET f == frame[t]
           n == Len(f.results)
       IN  \E g \in
             IF callable(reduce_result_func)
             THEN IF n = 0
                  THEN {Raise(f, "TypeError")}
                  ELSE {[f EXCEPT !.pc = "returned", !.reduced = n - 1,
                                  !.ret = Reduce(t, f.results)]}
                       \cup
                       {Raise([f EXCEPT !.reduced = j], "reduce_result_func") :
                            j \in 1..(n - 1)}
             ELSE {[f EXCEPT !.pc = "returned", !.ret = GeneralResult(f)]} :
             frame' = [frame EXCEPT ![t] = g]
    /\ UNCHANGED cfgvars

Next ==
    \E t \in Threads :
        \/ Invoke(t)
        \/ FirstCalls(t)
        \/ FuncBefore(t)
        \/ DecoratedCall(t)
        \/ FuncAfter(t)
        \/ AfterCalls(t)
        \/ Result(t)

(***************************************************************************)
(* Configurations.                                                         *)
(***************************************************************************)
HookSetInputs ==
    PyScalars \cup {PyIterable(s) : s \in SeqsUpTo({"callable", "other"}, MaxHooks)}

\* (args, kwds) of wrap_with_calls
FixedArguments ==
    { <<NoArg, NoKwds>>, <<Tuple(<<>>), Dict({})>>,
      <<Tuple(<<"a1">>), Dict({<<"k", "v">>})>> }

\* (func, func_args) of wrap_with_calls
SharedHooks ==
    { <<PyNone, (<<>>)>>, <<PyOther, (<<>>)>>,
      <<PyCallable, (<<>>)>>, <<PyCallable, <<"f1">> >> }

\* the wrapper was built by wrap_with_calls itself
Direct ==
    [name |-> "wrap_with_calls", func_before |-> PyNone, func_after |-> PyNone,
     func_args |-> <<>>, args |-> NoArg, kwds |-> NoKwds,
     return_filter_func |-> PyNone, reduce_result_func |-> PyNone]

\* one caller, every configuration
Init ==
    /\ entry = Direct
    /\ first_call \in HookSetInputs
    /\ after_call \in HookSetInputs
    /\ \E p \in SharedHooks : func = p[1] /\ func_args = p[2]
    /\ \E p \in FixedArguments : args = p[1] /\ kwds = p[2]
    /\ return_filter_func \in PyScalars
    /\ reduce_result_func \in PyScalars
    /\ threads = {1}
    /\ frame = [t \in Threads |-> IdleFrame]

Spec == Init /\ [][Next]_vars

\* concurrent callers of one wrapper
InitConc ==
    /\ entry = Direct
    /\ first_call = PyCallable
    /\ after_call = PyNone
    /\ \E p \in { <<PyNone, (<<>>)>>, <<PyCallable, <<"f1">> >> } :
            func = p[1] /\ func_args = p[2]
    /\ args = Tuple(<<"a1">>)
    /\ kwds = Dict({<<"k", "v">>})
    /\ return_filter_func = PyCallable
    /\ reduce_result_func \in {PyNone, PyCallable}
    /\ threads = Threads
    /\ frame = [t \in Threads |-> IdleFrame]

SpecConc == InitConc /\ [][Next]_vars

(***************************************************************************)
(* The facades wrap_with, call_before and call_after: each returns         *)
(* wrap_with_calls(...) for the keyword arguments given here; func and     *)
(* func_args of wrap_with_calls keep their defaults.                       *)
(***************************************************************************)
\* the keyword arguments of one call of wrap_with_calls
Config(fc, ac, a, k, rf, rr) ==
    [first_call |-> fc, after_call |-> ac, func |-> PyNone, func_args |-> <<>>,
     args |-> a, kwds |-> k,
     return_filter_func |-> rf, reduce_result_func |-> rr]

\* (*func_args, *(args or tuple()))
Prepended(fa, a) == Tuple(fa \o (IF a.none \/ a.items = <<>> THEN <<>> ELSE a.items))

\* def wrap_with(func_before, func_after, *func_args, args, kwds, ...)
wrap_withNoExtras(func_before, func_after, fa, a, k, rf, rr) ==
    Config(func_before, func_after, a, k, rf, rr)
wrap_with(func_before, func_after, fa, a, k, rf, rr) ==
    Config(func_before, func_after, Prepended(fa, a), k, rf, rr)

\* def call_before(func, *func_args, args, kwds, ...)
call_beforeAsShared(fn, fa, a, k, rf, rr) ==
    [Config(PyNone, PyNone, Prepended(fa, a), k, rf, rr) EXCEPT
        !.func = fn, !.func_args = fa]
call_before(fn, fa, a, k, rf, rr) ==
    Config(fn, PyNone, Prepended(fa, a), k, rf, rr)

\* def call_after(func, *func_args, args, kwds, ...)
call_after(fn, fa, a, k, rf, rr) ==
    Config(PyNone, fn, Prepended(fa, a), k, rf, rr)

\* extra positional arguments given to a facade
ExtraArgs == {<<>>, <<"f1">>}

\* the calls of the facades: wrap_with keeps its callables in func_before
\* and func_after, call_before its func in func_before, call_after in func_after
FacadeCalls ==
    { [name |-> n, func_before |-> b, func_after |-> a, func_args |-> fa,
       args |-> p[1], kwds |-> p[2],
       return_filter_func |-> rf, reduce_result_func |-> rr] :
        n \in {"wrap_with"}, b \in HookSetInputs, a \in HookSetInputs,
        fa \in ExtraArgs, p \in FixedArguments, rf \in PyScalars, rr \in PyScalars }
    \cup
    { [name |-> "call_before", func_before |-> b, func_after |-> PyNone,
       func_args |-> fa, args |-> p[1], kwds |-> p[2],
       return_filter_func |-> rf, reduce_result_func |-> rr] :
        b \in HookSetInputs,
        fa \in ExtraArgs, p \in FixedArguments, rf \in PyScalars, rr \in PyScalars }
    \cup
    { [name |-> "call_after", func_before |-> PyNone, func_after |-> a,
       func_args |-> fa, args |-> p[1], kwds |-> p[2],
       return_filter_func |-> rf, reduce_result_func |-> rr] :
        a \in HookSetInputs,
        fa \in ExtraArgs, p \in FixedArguments, rf \in PyScalars, rr \in PyScalars }

\* what the facade called by e hands to wrap_with_calls
Facade(e) ==
    IF e.name = "wrap_with"
    THEN wrap_with(e.func_before, e.func_after, e.func_args, e.args, e.kwds,
                   e.return_filter_func, e.reduce_result_func)
    ELSE IF e.name = "call_before"
    THEN call_before(e.func_before, e.func_args, e.args, e.kwds,
                     e.return_filter_func, e.reduce_result_func)
    ELSE call_after(e.func_after, e.func_args, e.args, e.kwds,
                    e.return_filter_func, e.reduce_result_func)

\* one caller of a wrapper built through a facade
InitFacade ==
    /\ entry \in FacadeCalls
    /\ first_call = Facade(entry).first_call
    /\ after_call = Facade(entry).after_call
    /\ func = Facade(entry).func
    /\ func_args = Facade(entry).func_args
    /\ args = Facade(entry).args
    /\ kwds = Facade(entry).kwds
    /\ return_filter_func = Facade(entry).return_filter_func
    /\ reduce_result_func = Facade(entry).reduce_result_func
    /\ threads = {1}
    /\ frame = [t \in Threads |-> IdleFrame]

SpecFacade == InitFacade /\ [][Next]_vars

(***************************************************************************)
(* What the specification expects, stated over the calls a frame has made. *)
(***************************************************************************)
Range(s) == {s[i] : i \in 1..Len(s)}

IsPrefix(a, b) == Len(a) <= Len(b) /\ SubSeq(b, 1, Len(a)) = a

IsCallableMember(o) == o.kind = "callable"

\* Hook Set rule: the callables of a hook set, in insertion order
HookSet(c) ==
    IF c.kind = "callable" THEN <<c>>
    ELSE IF c.kind = "iterable" THEN SelectSeq(c.items, IsCallableMember)
    ELSE <<>>

Callee(slot, name) == <<slot, name>>

HookCallees(slot, c) ==
    [i \in 1..Len(HookSet(c)) |-> Callee(slot, HookSet(c)[i].name)]

SharedCallee(fn) ==
    IF fn.kind = "callable" THEN <<Callee("func", fn.name)>> ELSE <<>>

\* before-hooks, shared hook, target, shared hook, after-hooks
OrderFor(fc, fn, ac) ==
    HookCallees("first_call", fc) \o SharedCallee(fn)
        \o <<Callee("decorated_func", 1)>>
        \o SharedCallee(fn) \o HookCallees("after_call", ac)

ExpectedOrder == OrderFor(first_call, func, after_call)

Callees(f) == [i \in 1..Len(f.calls) |-> Callee(f.calls[i].slot, f.calls[i].name)]

FilterSet == return_filter_func.kind = "callable"
ReducerSet == reduce_result_func.kind = "callable"

\* the i-th call of f is a hook or shared-hook call whose result the filter is true of
HitAt(f, i) ==
    /\ FilterSet
    /\ f.calls[i].slot # "decorated_func"
    /\ f.calls[i].ret # <<>>
    /\ f.calls[i].ret[1].hit

ShortCircuited(f) == \E i \in 1..Len(f.calls) : HitAt(f, i)

TargetCalls(f) == {i \in 1..Len(f.calls) : f.calls[i].slot = "decorated_func"}

\* how often the target's result stands in the Result Sequence
TargetCount(f) ==
    Cardinality({i \in 1..Len(f.results) : f.results[i].slot = "decorated_func"})

\* the results of all calls of f, when each returned
CallResults(f) == [i \in 1..Len(f.calls) |-> f.calls[i].ret[1]]

\* reducer(...reducer(reducer(r1, r2), r3)..., rn), in postfix form
RECURSIVE FoldFrom(_, _, _)
FoldFrom(acc, rest, app) ==
    IF rest = <<>> THEN acc
    ELSE FoldFrom(acc \o <<Head(rest)>> \o <<app>>, Tail(rest), app)

ExpectedFold(t, seq) ==
    FoldFrom(<<seq[1]>>, Tail(seq), [by |-> t, call |-> 0,
             slot |-> "reduce_result_func", name |-> 0, hit |-> FALSE])

\* the specification's example: before-hook returns 1, target 2, after-hook 3
ExampleValue(v) ==
    CASE v.slot = "first_call" -> 1
      [] v.slot = "decorated_func" -> 2
      [] v.slot = "after_call" -> 3
      [] OTHER -> 0

Apply(op, a, b) == IF op = "add" THEN a + b ELSE a - b

\* the value of a postfix term under ExampleValue, the reducer being op
RECURSIVE EvalStack(_, _, _)
EvalStack(term, st, op) ==
    IF term = <<>> THEN st[Len(st)]
    ELSE IF Head(term).slot = "reduce_result_func"
    THEN EvalStack(Tail(term),
                   Append(SubSeq(st, 1, Len(st) - 2),
                          Apply(op, st[Len(st) - 1], st[Len(st)])), op)
    ELSE EvalStack(Tail(term), Append(st, ExampleValue(Head(term))), op)

Eval(term, op) == EvalStack(term, <<>>, op)

ExampleRun(f) ==
    Callees(f) = <<Callee("first_call", 1), Callee("decorated_func", 1),
                   Callee("after_call", 1)>>

(***************************************************************************)
(* C1.  In an invocation with no short-circuit and no failure the calls    *)
(* are, each once: the before-hooks in insertion order, the shared hook    *)
(* (if set), the target, the shared hook again, the after-hooks in         *)
(* insertion order.  At no time has a callable been invoked out of this    *)
(* order or more often.                                                    *)
(***************************************************************************)
C1_ExecutionOrder ==
    \A t \in threads :
        LET f == frame[t] IN
        /\ IsPrefix(Callees(f), ExpectedOrder)
        /\ (f.pc = "returned" /\ ~ShortCircuited(f)) => Callees(f) = ExpectedOrder

C1_Witness ==
    \E t \in threads :
        LET f == frame[t] IN
        /\ f.pc = "returned" /\ ~ShortCircuited(f)
        /\ Len(HookSet(first_call)) >= 2 /\ Len(HookSet(after_call)) >= 2
        /\ func.kind = "callable"
        /\ Len(f.calls) = Len(HookSet(first_call)) + Len(HookSet(after_call)) + 3

(***************************************************************************)
(* C2.  As claimed: when the filter is set and true of the result x of     *)
(* the N-th call of the execution sequence, whichever call that is, the    *)
(* wrapper returns x at once and no later step runs.                       *)
(***************************************************************************)
C2_Original ==
    \A t \in threads :
        LET f == frame[t] IN
        \A i \in 1..Len(f.calls) :
            (FilterSet /\ f.calls[i].ret # <<>> /\ f.calls[i].ret[1].hit) =>
                /\ i = Len(f.calls)
                /\ \/ f.pc = "returned" /\ f.ret = f.calls[i].ret
                   \/ f.pc = "raised" /\ f.exc = "return_filter_func"

(***************************************************************************)
(* C2, amended.  When the filter is set and true of the result x of the    *)
(* N-th call, that call being a before-hook, shared-hook or after-hook     *)
(* call (the filter is not applied to the target's own result), the        *)
(* wrapper returns x at once and no later step runs: the N-th call is the  *)
(* last one, the reducer is not applied, and if the target was not called  *)
(* before N it is not called.                                              *)
(***************************************************************************)
C2_Amended ==
    \A t \in threads :
        LET f == frame[t] IN
        \A i \in 1..Len(f.calls) :
            HitAt(f, i) =>
                /\ i = Len(f.calls)
                /\ f.reduced = 0
                /\ \/ f.pc = "returned" /\ f.ret = f.calls[i].ret
                   \/ f.pc = "raised" /\ f.exc = "return_filter_func"
                /\ (\A j \in 1..(i - 1) : f.calls[j].slot # "decorated_func")
                      => TargetCalls(f) = {}

C2_Witness ==
    \E t \in threads :
        LET f == frame[t] IN
        /\ f.pc = "returned"
        /\ Len(f.calls) = 2
        /\ HitAt(f, 2) /\ f.calls[2].slot = "first_call"
        /\ f.ret = f.calls[2].ret
        /\ TargetCalls(f) = {}

(***************************************************************************)
(* C3.  As claimed: at the end of every invocation the target's result     *)
(* stands in the Result Sequence exactly once.                             *)
(***************************************************************************)
C3_Original ==
    \A t \in threads : frame[t].pc = "returned" => TargetCount(frame[t]) = 1

(***************************************************************************)
(* C3, amended.  The target's result is appended exactly once in every     *)
(* invocation in which the target was called and returned, whatever the    *)
(* filter and the reducer are (also when the filter is true of it), and    *)
(* not at all in an invocation that short-circuited or failed before the   *)
(* target; it is never appended twice.                                     *)
(***************************************************************************)
C3_Amended ==
    \A t \in threads :
        LET f == frame[t]
            returned == {i \in TargetCalls(f) : f.calls[i].ret # <<>>}
        IN  /\ TargetCount(f) <= 1
            /\ Cardinality(TargetCalls(f)) <= 1
            /\ TargetCount(f) = Cardinality(returned)
            /\ \A i \in returned : f.calls[i].ret[1] \in Range(f.results)

C3_Witness ==
    \E t \in threads :
        LET f == frame[t] IN
        /\ f.pc = "returned" /\ FilterSet /\ ReducerSet
        /\ \E i \in TargetCalls(f) : f.calls[i].ret # <<>> /\ f.calls[i].ret[1].hit
        /\ TargetCount(f) = 1
        /\ Len(f.results) >= 3

(***************************************************************************)
(* C4.  With no reducer, an invocation that completes without a            *)
(* short-circuit returns the result of the target, called with the         *)
(* caller's arguments, whatever the hooks returned.                        *)
(***************************************************************************)
C4_NoReducerReturnsTarget ==
    \A t \in threads :
        LET f == frame[t] IN
        (f.pc = "returned" /\ ~ReducerSet /\ ~ShortCircuited(f)) =>
            \E i \in TargetCalls(f) :
                /\ f.calls[i].ret # <<>>
                /\ f.ret = f.calls[i].ret
                /\ f.calls[i].args = f.decorated_func_args
                /\ f.calls[i].kwds = f.decorated_func_kwds

C4_Witness ==
    \E t \in threads :
        LET f == frame[t] IN
        /\ f.pc = "returned" /\ ~ReducerSet /\ ~FilterSet
        /\ Len(f.calls) = 2
        /\ f.calls[1].slot = "first_call" /\ f.calls[2].slot = "decorated_func"
        /\ f.ret = f.calls[2].ret /\ f.ret # f.calls[1].ret

(***************************************************************************)
(* C5.  With a reducer and no short-circuit, the wrapper returns the       *)
(* left-to-right fold of the results of all its calls in execution order;  *)
(* in the specification's example (1, 2, 3, reducer a+b) that is 6, and    *)
(* with the reducer a-b it is (1-2)-3.                                     *)
(***************************************************************************)
C5_ReducerFoldsLeft ==
    \A t \in threads :
        LET f == frame[t] IN
        (f.pc = "returned" /\ ReducerSet /\ ~ShortCircuited(f)) =>
            /\ Callees(f) = ExpectedOrder
            /\ \A i \in 1..Len(f.calls) : f.calls[i].ret # <<>>
            /\ f.ret = ExpectedFold(t, CallResults(f))
            /\ ExampleRun(f) => Eval(f.ret, "add") = 6 /\ Eval(f.ret, "sub") = -4

C5_Witness ==
    \E t \in threads :
        LET f == frame[t] IN
        /\ f.pc = "returned" /\ ReducerSet /\ ~ShortCircuited(f)
        /\ ExampleRun(f)
        /\ Eval(f.ret, "add") = 6

(***************************************************************************)
(* C6.  The target is called with exactly the caller's positional and      *)
(* keyword arguments and receives none of args, kwds or func_args; no      *)
(* hook and no shared-hook call receives an argument of the caller.        *)
(***************************************************************************)
CallerPositional == UNION {Range(c[1]) : c \in CallerArguments}
CallerKeywords == UNION {c[2] : c \in CallerArguments}

C6_ArgumentIsolation ==
    \A t \in threads :
        LET f == frame[t] IN
        \A i \in 1..Len(f.calls) :
            LET c == f.calls[i] IN
            IF c.slot = "decorated_func"
            THEN /\ c.args = f.decorated_func_args
                 /\ c.kwds = f.decorated_func_kwds
                 /\ Range(c.args) \cap (Range(args.items) \cup Range(func_args)) = {}
                 /\ c.kwds \cap kwds.items = {}
            ELSE /\ Range(c.args) \cap CallerPositional = {}
                 /\ c.kwds \cap CallerKeywords = {}

C6_Witness ==
    \E t \in threads :
        LET f == frame[t] IN
        /\ args.items = <<"a1">> /\ kwds.items # {}
        /\ func.kind = "callable" /\ func_args = <<"f1">>
        /\ Len(f.calls) >= 3
        /\ f.calls[1].slot = "first_call" /\ f.calls[1].args = <<"a1">>
        /\ \E i \in TargetCalls(f) :
              f.calls[i].args = <<"c1">> /\ f.calls[i].kwds # {}

(***************************************************************************)
(* C7.  With no before-hook, no after-hook, no shared hook and no reducer  *)
(* the wrapper calls the target once, with the caller's arguments, makes   *)
(* no other call, and returns what the target returned (and raises when    *)
(* the target raised), with or without a filter.                           *)
(***************************************************************************)
NoHooks ==
    /\ HookSet(first_call) = <<>>
    /\ HookSet(after_call) = <<>>
    /\ func.kind # "callable"

C7_Transparency ==
    \A t \in threads :
        LET f == frame[t] IN
        (NoHooks /\ ~ReducerSet) =>
            /\ Len(f.calls) <= 1
            /\ f.filtered = <<>>
            /\ f.reduced = 0
            /\ f.pc \in {"returned", "raised"} =>
                  /\ Len(f.calls) = 1
                  /\ f.calls[1].slot = "decorated_func"
                  /\ f.calls[1].args = f.decorated_func_args
                  /\ f.calls[1].kwds = f.decorated_func_kwds
                  /\ f.ret = f.calls[1].ret
                  /\ (f.pc = "returned") = (f.calls[1].ret # <<>>)

C7_Witness ==
    \E t \in threads :
        LET f == frame[t] IN
        /\ NoHooks /\ ~ReducerSet /\ FilterSet
        /\ f.pc = "returned"
        /\ f.decorated_func_args = <<"c1">>
        /\ f.ret = f.calls[1].ret /\ f.ret[1].hit

(***************************************************************************)
(* C8.  A value that is neither callable nor iterable given as first_call  *)
(* or after_call, and a value that is neither callable nor None given as   *)
(* func, never raises: no call is made for it, and the calls, their order  *)
(* and the value returned are those of the configuration in which that     *)
(* parameter is None.                                                      *)
(***************************************************************************)
Malformed ==
    \/ first_call.kind = "other"
    \/ after_call.kind = "other"
    \/ func.kind = "other"

Absent(c) == IF c.kind = "other" THEN PyNone ELSE c

AsIfAbsentOrder == OrderFor(Absent(first_call), Absent(func), Absent(after_call))

\* the value a completed invocation returns, from the calls it made
ExpectedReturn(t, f) ==
    IF ShortCircuited(f) THEN f.calls[Len(f.calls)].ret
    ELSE IF ReducerSet THEN ExpectedFold(t, CallResults(f))
    ELSE f.calls[CHOOSE i \in TargetCalls(f) : TRUE].ret

C8_MalformedConfiguration ==
    \A t \in threads :
        LET f == frame[t] IN
        Malformed =>
            /\ f.exc # "TypeError"
            /\ \A i \in 1..Len(f.calls) :
                  /\ first_call.kind = "other" => f.calls[i].slot # "first_call"
                  /\ after_call.kind = "other" => f.calls[i].slot # "after_call"
                  /\ func.kind = "other" => f.calls[i].slot # "func"
            /\ IsPrefix(Callees(f), AsIfAbsentOrder)
            /\ (f.pc = "returned" /\ ~ShortCircuited(f)) => Callees(f) = AsIfAbsentOrder
            /\ f.pc = "returned" => f.ret = ExpectedReturn(t, f)

C8_Witness ==
    \E t \in threads :
        LET f == frame[t] IN
        /\ first_call.kind = "other" /\ func.kind = "other"
        /\ Len(HookSet(after_call)) = 1 /\ ReducerSet
        /\ f.pc = "returned" /\ ~ShortCircuited(f)
        /\ Len(f.calls) = 2

(***************************************************************************)
(* C9.  When a hook, the shared hook, the target, the filter or the        *)
(* reducer fails, the invocation ends with that failure at that step: the  *)
(* failed call is the last call, no value is returned, and the frame does  *)
(* nothing more; the next invocation starts from nothing.                  *)
(***************************************************************************)
Failures ==
    {"first_call", "func", "decorated_func", "after_call",
     "return_filter_func", "reduce_result_func"}

C9_State(t) ==
    LET f == frame[t]
        n == Len(f.calls)
    IN  /\ \A i \in 1..n :
              f.calls[i].ret = <<>> =>
                  i = n /\ f.pc = "raised" /\ f.exc = f.calls[i].slot
        /\ f.pc = "raised" => f.ret = <<>> /\ f.exc \in Failures
        /\ f.exc # "" => f.pc = "raised"
        /\ f.exc = "return_filter_func" =>
              /\ n >= 1 /\ f.calls[n].ret # <<>>
              /\ f.filtered[Len(f.filtered)] = f.calls[n].ret[1]
              /\ f.calls[n].ret[1] \notin Range(f.results)
        /\ f.exc = "reduce_result_func" =>
              /\ f.reduced >= 1
              /\ Callees(f) = ExpectedOrder

C9_Step(t) ==
    frame[t].pc = "raised" =>
        \/ frame'[t] = frame[t]
        \/ /\ frame'[t].pc = "first_calls"
           /\ frame'[t].results = <<>>
           /\ frame'[t].calls = <<>>
           /\ frame'[t].ret = <<>>
           /\ frame'[t].exc = ""
           /\ frame'[t].reduced = 0

C9_FailurePropagation ==
    /\ [](\A t \in threads : C9_State(t))
    /\ [][\A t \in threads : C9_Step(t)]_vars

C9_Witness ==
    \E t \in threads :
        LET f == frame[t] IN
        /\ f.pc = "raised" /\ f.exc = "after_call"
        /\ Len(f.results) >= 3
        /\ f.ret = <<>>

(***************************************************************************)
(* C10.  Whatever the interleaving of the invocations of one wrapper,      *)
(* each invocation starts with an empty Result Sequence, its Result        *)
(* Sequence holds exactly the results its own calls produced and the       *)
(* wrapper appended, a step of one invocation changes no other one, and    *)
(* the value it returns is the one its own calls determine.                *)
(***************************************************************************)
\* the results of the calls of f that the wrapper appended, in order
OwnAppended(f) ==
    LET Kept(c) ==
            /\ c.ret # <<>>
            /\ ~(FilterSet /\ c.slot # "decorated_func" /\ c.ret[1].hit)
            /\ ~(f.exc = "return_filter_func" /\ c.ret[1].call = Len(f.calls))
        kept == SelectSeq(f.calls, Kept)
    IN  [i \in 1..Len(kept) |-> kept[i].ret[1]]

C10_State(t) ==
    LET f == frame[t] IN
    /\ f.results = OwnAppended(f)
    /\ \A v \in Range(f.results) \cup Range(f.ret) \cup Range(f.filtered) : v.by = t
    /\ \A i \in 1..Len(f.calls) :
          f.calls[i].ret # <<>> => f.calls[i].ret[1].by = t /\ f.calls[i].ret[1].call = i
    /\ f.pc = "returned" => f.ret = ExpectedReturn(t, f)

C10_Step(t) ==
    /\ (frame[t].pc \in {"idle", "returned", "raised"} /\ frame'[t] # frame[t]) =>
          frame'[t].pc = "first_calls" /\ frame'[t].results = <<>>
    /\ frame[t].pc \notin {"idle", "returned", "raised"} =>
          IsPrefix(frame[t].results, frame'[t].results)
    /\ frame'[t] # frame[t] => \A u \in Threads \ {t} : frame'[u] = frame[u]

C10_Isolation ==
    /\ [](\A t \in threads : C10_State(t))
    /\ [][\A t \in threads : C10_Step(t)]_vars

C10_Witness ==
    \E t \in threads, u \in threads :
        /\ t # u
        /\ frame[t].pc = "func_after" /\ Len(frame[t].results) >= 2
        /\ frame[u].pc = "raised" /\ Len(frame[u].results) >= 1
        /\ frame[t].decorated_func_args # frame[u].decorated_func_args

(***************************************************************************)
(* The facades.                                                            *)
(***************************************************************************)
\* the invocation of frame f ran to its end: no failure, no short-circuit
Completed(f) == f.pc = "returned" /\ ~ShortCircuited(f)

\* args or tuple(), of the arguments the facade was given
GivenArgs == IF entry.args.none THEN <<>> ELSE entry.args.items
GivenKwds == IF entry.kwds.none THEN {} ELSE entry.kwds.items

\* a completed invocation of a wrap_with wrapper of two callables
PairedRun(f) ==
    /\ entry.name = "wrap_with"
    /\ entry.func_before.kind = "callable" /\ entry.func_after.kind = "callable"
    /\ Completed(f)

\* before callable, target, after callable: each once, no shared hook
PairedOrder(f) ==
    Callees(f) = << Callee("first_call", entry.func_before.name),
                    Callee("decorated_func", 1),
                    Callee("after_call", entry.func_after.name) >>

(***************************************************************************)
(* C11 as stated.  wrap_with: on a completed invocation the before         *)
(* callable is called once before the target and the after callable once   *)
(* after it, no shared hook is called, and the extra positional arguments  *)
(* are prepended to the fixed arguments of one of the two callables only.  *)
(***************************************************************************)
C11_Original ==
    \A t \in threads :
        LET f == frame[t] IN
        PairedRun(f) =>
            /\ PairedOrder(f)
            /\ entry.func_args # <<>> =>
                 ~ /\ IsPrefix(entry.func_args, f.calls[1].args)
                   /\ IsPrefix(entry.func_args, f.calls[Len(f.calls)].args)

(***************************************************************************)
(* C11 amended.  wrap_with: on an invocation that completes without        *)
(* short-circuit the before callable is called once before the target and  *)
(* the after callable once after it, no shared hook is called, and BOTH    *)
(* callables receive the extra positional arguments followed by args, and  *)
(* kwds; the target receives none of them.                                 *)
(***************************************************************************)
C11_Amended ==
    \A t \in threads :
        LET f == frame[t] IN
        PairedRun(f) =>
            /\ PairedOrder(f)
            /\ \A i \in {1, 3} :
                 /\ f.calls[i].args = entry.func_args \o GivenArgs
                 /\ f.calls[i].kwds = GivenKwds
            /\ f.calls[2].args = f.decorated_func_args
            /\ Range(f.calls[2].args) \cap Range(entry.func_args) = {}

C11_Witness ==
    \E t \in threads :
        LET f == frame[t] IN
        /\ PairedRun(f)
        /\ entry.func_args = <<"f1">> /\ entry.args.items = <<"a1">>
        /\ Len(f.calls) = 3
        /\ f.calls[1].args = <<"f1", "a1">> /\ f.calls[3].args = <<"f1", "a1">>

\* the composer configuration a call_before / call_after wrapper stands for
OneSided == entry.name \in {"call_before", "call_after"}
BeforeHooks == IF entry.name = "call_before" THEN entry.func_before ELSE PyNone
AfterHooks == IF entry.name = "call_after" THEN entry.func_after ELSE PyNone
FacadeOrder == OrderFor(BeforeHooks, PyNone, AfterHooks)

(***************************************************************************)
(* C12.  A wrapper built by call_before(h, extra.., args=a, kwds=k,        *)
(* filter, reducer) is the composer configured with before-hooks h, no     *)
(* shared hook, no after-hooks, fixed arguments extra followed by a, and   *)
(* k, the same filter and reducer (call_after: with after-hooks h); its    *)
(* invocations follow the composer's execution order, short-circuit rule   *)
(* and reduce rule.                                                        *)
(***************************************************************************)
C12_FacadesAddNothing ==
    OneSided =>
        /\ first_call = BeforeHooks /\ after_call = AfterHooks
        /\ ~callable(func) /\ func_args = <<>>
        /\ _args = entry.func_args \o GivenArgs
        /\ _kwds = GivenKwds
        /\ return_filter_func = entry.return_filter_func
        /\ reduce_result_func = entry.reduce_result_func
        /\ \A t \in threads :
             LET f == frame[t] IN
             /\ IsPrefix(Callees(f), FacadeOrder)
             /\ Completed(f) => Callees(f) = FacadeOrder
             /\ \A i \in 1..Len(f.calls) :
                  /\ f.calls[i].slot # "decorated_func" =>
                       /\ f.calls[i].args = entry.func_args \o GivenArgs
                       /\ f.calls[i].kwds = GivenKwds
                  /\ HitAt(f, i) =>
                       /\ i = Len(f.calls)
                       /\ f.pc = "returned" \/ f.exc = "return_filter_func"
             /\ f.pc = "returned" => f.ret = ExpectedReturn(t, f)

C12_Witness ==
    \E t \in threads :
        LET f == frame[t] IN
        /\ entry.name = "call_before"
        /\ entry.func_before.kind = "callable"
        /\ entry.func_args = <<"f1">> /\ entry.args.items = <<"a1">>
        /\ ReducerSet /\ Completed(f)
        /\ Len(f.calls) = 2
        /\ f.calls[1].slot = "first_call" /\ f.calls[1].args = <<"f1", "a1">>
        /\ f.ret = ExpectedFold(t, CallResults(f))

(***************************************************************************)
(* C13.  The return filter is never given the target's own result: even    *)
(* when the filter would be true of it, the result is appended to the      *)
(* Result Sequence, the invocation does not end there, and the steps after *)
(* the target run as configured.                                           *)
(***************************************************************************)
\* the filter is set and would be true of the result of the i-th call of f
WouldHit(f, i) == FilterSet /\ f.calls[i].ret # <<>> /\ f.calls[i].ret[1].hit

C13_TargetNotFiltered ==
    \A t \in threads :
        LET f == frame[t] IN
        /\ \A j \in 1..Len(f.filtered) : f.filtered[j].slot # "decorated_func"
        /\ \A i \in TargetCalls(f) :
             WouldHit(f, i) =>
                /\ f.calls[i].ret[1] \in Range(f.results)
                /\ f.decorated_func_result = f.calls[i].ret
                /\ i = Len(f.calls) =>
                     \/ f.pc \in {"func_after", "after_calls", "result"}
                     \/ f.pc = "returned" /\ f.ret = ExpectedReturn(t, f)
                     \/ f.exc = "reduce_result_func"
                /\ Completed(f) => Callees(f) = ExpectedOrder

C13_Witness ==
    \E t \in threads :
        LET f == frame[t] IN
        /\ Completed(f) /\ ~ReducerSet
        /\ \E i \in TargetCalls(f) :
              /\ WouldHit(f, i)
              /\ i < Len(f.calls)
              /\ f.calls[Len(f.calls)].slot = "after_call"
              /\ f.calls[i].ret[1] \in Range(f.results)
              /\ f.ret = f.calls[i].ret

\* the calls of f that are not the target's: hook-set members and shared hook
HookSlots == {"first_call", "after_call", "func"}
NonTargetCalls(f) == {i \in 1..Len(f.calls) : f.calls[i].slot \in HookSlots}

(***************************************************************************)
(* C14 as stated.  The fixed arguments are bound once and passed unchanged *)
(* and identically: every before-hook, after-hook and shared-hook call of  *)
(* an invocation receives the same argument list, the fixed positional     *)
(* arguments and the fixed keyword arguments.                              *)
(***************************************************************************)
C14_Original ==
    \A t \in threads :
        LET f == frame[t] IN
        \A i \in NonTargetCalls(f) :
            /\ f.calls[i].args = args.items /\ f.calls[i].kwds = kwds.items
            /\ \A j \in NonTargetCalls(f) :
                  f.calls[i].args = f.calls[j].args /\ f.calls[i].kwds = f.calls[j].kwds

(***************************************************************************)
(* C14 amended.  The fixed arguments are bound once and passed unchanged:  *)
(* every before-hook and after-hook call receives exactly the fixed        *)
(* positional and keyword arguments; both shared-hook calls receive the    *)
(* shared hook's own positional arguments followed by the fixed positional *)
(* arguments, and the fixed keyword arguments, the two calls alike.        *)
(***************************************************************************)
C14_Amended ==
    \A t \in threads :
        LET f == frame[t] IN
        \A i \in NonTargetCalls(f) :
            /\ f.calls[i].kwds = kwds.items
            /\ f.calls[i].slot # "func" => f.calls[i].args = args.items
            /\ f.calls[i].slot = "func" => f.calls[i].args = func_args \o args.items
            /\ \A j \in NonTargetCalls(f) :
                  f.calls[i].slot = f.calls[j].slot =>
                     f.calls[i].args = f.calls[j].args /\ f.calls[i].kwds = f.calls[j].kwds

C14_Witness ==
    \E t \in threads :
        LET f == frame[t] IN
        /\ Completed(f)
        /\ func_args = <<"f1">> /\ args.items = <<"a1">> /\ kwds.items # {}
        /\ Len(f.calls) = 5
        /\ f.calls[1].slot = "first_call" /\ f.calls[1].args = <<"a1">>
        /\ f.calls[2].slot = "func" /\ f.calls[2].args = <<"f1", "a1">>
        /\ f.calls[4].slot = "func" /\ f.calls[4].args = <<"f1", "a1">>
        /\ f.calls[5].slot = "after_call" /\ f.calls[5].args = <<"a1">>
        /\ f.calls[5].kwds = f.calls[2].kwds

\* callable before-hooks + callable after-hooks + the target + the shared hook twice
ExpectedLength ==
    Len(HookSet(first_call)) + Len(HookSet(after_call)) + 1
        + (IF func.kind = "callable" THEN 2 ELSE 0)

\* how often the reducer is applied in the term v
Applications(v) ==
    Cardinality({i \in 1..Len(v) : v[i].slot = "reduce_result_func"})

(***************************************************************************)
(* C15.  When the reduction step is reached the Result Sequence is not     *)
(* empty and has one element per callable before-hook and after-hook, one  *)
(* for the target and two for a shared hook; a reducer that returns is     *)
(* applied length - 1 times, never to an empty sequence, and with a        *)
(* reducer and no hooks the wrapper returns the target's result without    *)
(* applying the reducer.                                                   *)
(***************************************************************************)
C15_ReductionLength ==
    \A t \in threads :
        LET f == frame[t] IN
        /\ f.exc # "TypeError"
        /\ (f.pc = "result" \/ Completed(f)) =>
              /\ Len(f.results) >= 1
              /\ Len(f.results) = ExpectedLength
        /\ (Completed(f) /\ ReducerSet) =>
              /\ f.reduced = Len(f.results) - 1
              /\ Applications(f.ret) = Len(f.results) - 1
        /\ f.exc = "reduce_result_func" => f.reduced \in 1..(ExpectedLength - 1)
        /\ (Completed(f) /\ ReducerSet /\ NoHooks) =>
              /\ f.reduced = 0 /\ Applications(f.ret) = 0
              /\ Len(f.calls) = 1 /\ f.ret = f.calls[1].ret

C15_Witness ==
    \E t \in threads :
        LET f == frame[t] IN
        /\ Completed(f) /\ ReducerSet
        /\ Len(HookSet(first_call)) = 2 /\ first_call.kind = "iterable"
        /\ Len(first_call.items) = 2
        /\ func.kind = "callable" /\ Len(HookSet(after_call)) = 1
        /\ Len(f.results) = 6 /\ f.reduced = 5

(***************************************************************************)
(* C16.  A short-circuit bypasses the reducer: when the filter is true of  *)
(* a hook or shared-hook result the wrapper returns that very result, the  *)
(* reducer is not applied in that invocation, the result is not appended   *)
(* to the Result Sequence, and the results collected before it are no part *)
(* of the returned value.                                                  *)
(***************************************************************************)
C16_ShortCircuitBypassesReducer ==
    \A t \in threads :
        LET f == frame[t] IN
        \A i \in 1..Len(f.calls) :
            (HitAt(f, i) /\ f.pc = "returned") =>
                /\ f.ret = f.calls[i].ret
                /\ f.reduced = 0 /\ Applications(f.ret) = 0
                /\ f.calls[i].ret[1] \notin Range(f.results)
                /\ f.results = [j \in 1..(i - 1) |-> f.calls[j].ret[1]]
                /\ Range(f.ret) \cap Range(f.results) = {}

C16_Witness ==
    \E t \in threads :
        LET f == frame[t] IN
        /\ ReducerSet /\ f.pc = "returned"
        /\ Len(f.calls) = 4 /\ HitAt(f, 4)
        /\ f.calls[4].slot = "after_call"
        /\ Len(f.results) = 3
        /\ f.ret = f.calls[4].ret

\* the members of the iterable hook set c that are not callable, by position
Skipped(c) ==
    IF c.kind = "iterable"
    THEN {k \in 1..Len(c.items) : c.items[k].kind # "callable"}
    ELSE {}

\* the hook set given for a slot
Given(slot) == IF slot = "first_call" THEN first_call ELSE after_call

\* the members of the hook set of slot that frame f has called, in call order
CalledMembers(f, slot) ==
    LET idx == SelectSeq([i \in 1..Len(f.calls) |-> i],
                         LAMBDA i : f.calls[i].slot = slot)
    IN  [n \in 1..Len(idx) |-> f.calls[idx[n]].name]

MemberNames(c) == [n \in 1..Len(HookSet(c)) |-> HookSet(c)[n].name]

====
